---- MODULE Spec2Model ----
(***************************************************************************)
(* Dispatcher bot (src/index.ts): the worker registry, the request store,  *)
(* the periodic dispatch tick and the accept handler, as the coroutines    *)
(* the Node event loop interleaves at their awaits (every await is a call  *)
(* of sendDM).                                                             *)
(*                                                                         *)
(* Values: a point is the tuple <<latitude, longitude>>; an absent value   *)
(* (JavaScript undefined) is the empty tuple; an optional number is << >>  *)
(* or <<n>>.  A Map is the sequence of its entries in insertion order.     *)
(* Request objects live in heap; activeRequests maps an order id to the    *)
(* index of its object, so that a coroutine suspended at an await keeps    *)
(* the object it holds when the map entry is replaced.  A suspended        *)
(* coroutine carries the sendDM call it waits for in its field dm.         *)
(***************************************************************************)
EXTENDS Integers, Sequences, FiniteSets, TLC

\* ---- bounds ----
MaxWorkers == 2
MaxOrders == 1
MaxRequests == 1
MaxTicks == 2
MaxPollers == 1
MaxClockSteps == 1
TimeStep == 30000

\* ---- bounds of SpecRetransmit: one worker reports availability (any worker
\* may accept), and requests are sent again ----
RetransmitWorkers == 1
RetransmitOrders == 2
RetransmitRequests == 2
RetransmitTicks == 1

\* ---- program constants ----
DISPATCH_INTERVAL_MS == 30000

Workers == 1..MaxWorkers
Customers == {MaxWorkers + 1}
OrderIds == 1..MaxOrders

undefined == << >>

\* where a worker reports to be when it reports a location
Home(w) == IF w = 1 THEN <<0, 0>> ELSE <<1, 1>>
Statuses == {"AVAILABLE", "UNAVAILABLE"}

\* Availability payloads: {type: 'DRIVER_AVAILABILITY', status, location?}
AvailabilityPayloads(w) ==
    [status : {"AVAILABLE"}, location : {Home(w), undefined}]
    \cup [status : {"UNAVAILABLE"}, location : {undefined}]

\* What the Membership Provider's lists hold when they are fetched
DriverLists == {Workers}
LivreurLists == {{MaxWorkers}}

\* Request payloads: {type, orderId, pickup?, deliveryLocation?}
\* a ride names its origin in pickup, a delivery in the older deliveryLocation
RequestPoints == {<<0, 0>>, <<1, 1>>}

RequestPayloads(orders) ==
    { [type |-> "RIDE_REQUEST", orderId |-> o, pickup |-> g,
       deliveryLocation |-> undefined] :
        o \in orders, g \in RequestPoints \cup {undefined} }
    \cup
    { [type |-> "DELIVERY_REQUEST", orderId |-> o, pickup |-> undefined,
       deliveryLocation |-> g] :
        o \in orders, g \in RequestPoints \cup {undefined} }

VARIABLES
    clock,            \* the value Date.now() returns
    validDrivers,     \* Set<string>
    validLivreurs,    \* Set<string>
    drivers,          \* Map<string, DriverState>, entries in insertion order
    activeRequests,   \* Map<string, ActiveRequest>: entries [key, ref]
    heap,             \* the ActiveRequest objects ever created
    ticks,            \* the processRequests invocations suspended in sendDM
    pollers,          \* checkMessages runs: the handler each is suspended in
    fanout,           \* for the record, per request object: who accepted it,
                      \* the notifiedDrivers line 265 read, who was told
    console           \* the last line written to the console

vars == <<clock, validDrivers, validLivreurs, drivers, activeRequests, heap,
          ticks, pollers, fanout, console>>

\* ---- helpers ----

\* |x| for the table below
Abs(x) == IF x < 0 THEN -x ELSE x

\* getDistance on the grid {0,1} x {0,1} of whole degrees, in metres rounded
\* to the metre (the haversine values of the source formula, R = 6371e3).
getDistance(lat1, lon1, lat2, lon2) ==
    LET dlat == Abs(lat2 - lat1)
        dlon == Abs(lon2 - lon1)
    IN  IF dlat = 0 /\ dlon = 0 THEN 0
        ELSE IF dlon = 0 THEN 111195
        ELSE IF dlat = 0 THEN (IF lat1 = 0 THEN 111195 ELSE 111178)
        ELSE 157249

\* obj?.latitude and obj?.longitude: an optional number
Latitude(obj) == IF obj = undefined THEN undefined ELSE <<obj[1]>>
Longitude(obj) == IF obj = undefined THEN undefined ELSE <<obj[2]>>

\* JavaScript truthiness of an optional number: undefined and 0 are falsy
Truthy(v) == v # undefined /\ v[1] # 0

\* a || b
JsOr(a, b) == IF Truthy(a) THEN a ELSE b

\* Map.get on a sequence of entries keyed by field did: the entry or undefined
DriversGet(m, did) ==
    IF \E i \in 1..Len(m) : m[i].did = did
    THEN m[CHOOSE i \in 1..Len(m) : m[i].did = did]
    ELSE undefined

\* Map.set: an existing key keeps its position, a new key is appended
DriversSet(m, rec) ==
    IF \E i \in 1..Len(m) : m[i].did = rec.did
    THEN [i \in 1..Len(m) |-> IF m[i].did = rec.did THEN rec ELSE m[i]]
    ELSE Append(m, rec)

\* activeRequests.get(reqId): the index of the object in heap, 0 for undefined
RequestsGet(m, reqId) ==
    IF \E i \in 1..Len(m) : m[i].key = reqId
    THEN m[CHOOSE i \in 1..Len(m) : m[i].key = reqId].ref
    ELSE 0

\* activeRequests.set(reqId, object at ref)
RequestsSet(m, reqId, ref) ==
    IF \E i \in 1..Len(m) : m[i].key = reqId
    THEN [i \in 1..Len(m) |->
            IF m[i].key = reqId THEN [key |-> reqId, ref |-> ref] ELSE m[i]]
    ELSE Append(m, [key |-> reqId, ref |-> ref])

\* Array.prototype.sort with (a, b) => a.distance - b.distance: stable
RECURSIVE InsertByDistance(_, _)
InsertByDistance(sorted, c) ==
    IF sorted = << >> THEN <<c>>
    ELSE IF sorted[Len(sorted)].distance <= c.distance THEN Append(sorted, c)
    ELSE Append(InsertByDistance(SubSeq(sorted, 1, Len(sorted) - 1), c),
                sorted[Len(sorted)])

RECURSIVE SortByDistance(_)
SortByDistance(s) ==
    IF s = << >> THEN << >>
    ELSE InsertByDistance(SortByDistance(SubSeq(s, 1, Len(s) - 1)), s[Len(s)])

\* lines 161-166 without the sort of line 167
ComputeCandidatesUnsorted(m, reqType, reqLat, reqLon) ==
    LET Match(d) == d.type = reqType /\ d.status = "AVAILABLE"
                    /\ d.location # undefined
        found == SelectSeq(m, Match)
    IN  [i \in 1..Len(found) |->
           [did |-> found[i].did,
            distance |-> getDistance(reqLat, reqLon,
                          found[i].location[1], found[i].location[2])]]

\* the candidates of a request at (reqLat, reqLon) for workers of reqType
ComputeCandidates(m, reqType, reqLat, reqLon) ==
    LET Match(d) == d.type = reqType /\ d.status = "AVAILABLE"
                    /\ d.location # undefined
        found == SelectSeq(m, Match)
        mapped == [i \in 1..Len(found) |->
                    [did |-> found[i].did,
                     distance |-> getDistance(reqLat, reqLon,
                                   found[i].location[1], found[i].location[2])]]
    IN  SortByDistance(mapped)

\* a sendDM call: the recipient and the message
DM(to, msg) == [to |-> to, msg |-> msg]

NoDM == [to |-> 0, msg |-> [type |-> "none"]]

\* a console line, by the text of its template
Line(text) == text

\* a processRequests invocation that returned: it is dropped from ticks
IdleTick == [pc |-> "idle", now |-> 0, pos |-> 0, ref |-> 0, dm |-> NoDM]

IdlePoller == [pc |-> "idle", ref |-> 0, senderDid |-> 0, reqId |-> 0,
               others |-> << >>, dm |-> NoDM]

\* nobody accepted the request object, nobody was told it is taken
NoFanout == [by |-> 0, seen |-> << >>, told |-> << >>]

\* the first free slot of a table of coroutines
FirstIdle(tab) == CHOOSE i \in DOMAIN tab :
                     /\ tab[i].pc = "idle"
                     /\ \A j \in DOMAIN tab : tab[j].pc = "idle" => i <= j

Init ==
    /\ clock = DISPATCH_INTERVAL_MS
    /\ validDrivers = {}
    /\ validLivreurs = {}
    /\ drivers = << >>
    /\ activeRequests = << >>
    /\ heap = << >>
    /\ ticks = << >>
    /\ pollers = [p \in 1..MaxPollers |-> IdlePoller]
    /\ fanout = << >>
    /\ console = Line("Bot is running...")

\* Date.now() moves on.  The program reads the clock only to compare it with
\* lastNotificationTime (line 199) and to stamp an offer with the now of its
\* tick (lines 193, 215), and every clock value is due for a request that was
\* never offered: time is let pass once an offer has been stamped or while a
\* tick holds its now across an await.
Advance ==
    /\ clock < DISPATCH_INTERVAL_MS + MaxClockSteps * TimeStep
    /\ \/ \E r \in 1..Len(heap) : heap[r].lastNotificationTime # 0
       \/ Len(ticks) > 0
    /\ clock' = clock + TimeStep
    /\ UNCHANGED <<validDrivers, validLivreurs, drivers, activeRequests, heap,
                   ticks, pollers, fanout, console>>

\* refreshDriverLists, lines 82-87: the drivers list was found and fetched
RefreshDrivers(items) ==
    /\ validDrivers' = items
    /\ console' = Line("Loaded drivers")
    /\ UNCHANGED <<clock, validLivreurs, drivers, activeRequests, heap, ticks,
                   pollers, fanout>>

\* refreshDriverLists, lines 89-94: the livreurs list was found and fetched
RefreshLivreurs(items) ==
    /\ validLivreurs' = items
    /\ console' = Line("Loaded livreurs")
    /\ UNCHANGED <<clock, validDrivers, drivers, activeRequests, heap, ticks,
                   pollers, fanout>>

\* lines 125-127 if every sender were taken for a driver
SenderTypeUngated(senderDid) ==
    IF senderDid \in validLivreurs /\ senderDid \notin validDrivers
    THEN <<"LIVREURS">> ELSE <<"DRIVERS">>

\* the class handleDriverAvailability finds for a sender, << >> for null
SenderType(senderDid) ==
    IF senderDid \in validDrivers THEN <<"DRIVERS">>
    ELSE IF senderDid \in validLivreurs THEN <<"LIVREURS">>
    ELSE undefined

handleDriverAvailability(senderDid, payload) ==
    /\ \E p \in DOMAIN pollers : pollers[p].pc = "idle"
    /\ IF SenderType(senderDid) = undefined
       THEN /\ console' = Line("Ignored availability from non-driver")
            /\ UNCHANGED drivers
       ELSE /\ drivers' = DriversSet(drivers,
                              [did |-> senderDid,
                               status |-> payload.status,
                               location |-> payload.location,
                               lastSeen |-> clock,
                               type |-> SenderType(senderDid)[1]])
            /\ console' = Line("Updated driver")
    /\ UNCHANGED <<clock, validDrivers, validLivreurs, activeRequests, heap,
                   ticks, pollers, fanout>>

\* the origin handleRequest reads from a payload, lines 153-154
ReqLat(payload) == JsOr(Latitude(payload.pickup), Latitude(payload.deliveryLocation))
ReqLon(payload) == JsOr(Longitude(payload.pickup), Longitude(payload.deliveryLocation))

\* line 156
MissingLocation(payload) == ~Truthy(ReqLat(payload)) \/ ~Truthy(ReqLon(payload))

\* lines 145-146
ReqType(payload) == IF payload.type = "DELIVERY_REQUEST" THEN "LIVREURS" ELSE "DRIVERS"

\* lines 161-167
RequestCandidates(m, payload) ==
    ComputeCandidates(m, ReqType(payload), ReqLat(payload)[1], ReqLon(payload)[1])

\* lines 176-187
NewRequest(senderDid, payload, candidates, now) ==
    [id |-> payload.orderId,
     type |-> IF payload.type = "DELIVERY_REQUEST" THEN "DELIVERY" ELSE "RIDE",
     status |-> "PENDING",
     customerDid |-> senderDid,
     candidates |-> candidates,
     nextCandidateIndex |-> 0,
     notifiedDrivers |-> << >>,
     data |-> payload,
     timestamp |-> now,
     lastNotificationTime |-> 0]

\* activeRequests.set(reqId, {...}) as line 176 does it
StoreRequest(m, reqId, ref) == RequestsSet(m, reqId, ref)

\* lines 144-190; in the branch of line 171 up to its sendDM
handleRequest(p, senderDid, payload, maxRequests) ==
    /\ pollers[p].pc = "idle"
    /\ p = FirstIdle(pollers)
    /\ IF MissingLocation(payload)
       THEN /\ console' = Line("Request missing location")
            /\ UNCHANGED <<activeRequests, heap, pollers, fanout>>
       ELSE LET candidates == RequestCandidates(drivers, payload)
                reqId == payload.orderId
            IN  IF Len(candidates) = 0
                THEN /\ console' = Line("No drivers available")
                     /\ pollers' = [pollers EXCEPT ![p] =
                            [IdlePoller EXCEPT
                               !.pc = "noDrivers",
                               !.senderDid = senderDid,
                               !.reqId = reqId,
                               !.dm = DM(senderDid,
                                         [type |-> "NO_DRIVERS_AVAILABLE",
                                          orderId |-> reqId])]]
                     /\ UNCHANGED <<activeRequests, heap, fanout>>
                ELSE /\ Len(heap) < maxRequests
                     /\ heap' = Append(heap,
                                  NewRequest(senderDid, payload, candidates, clock))
                     /\ fanout' = Append(fanout, NoFanout)
                     /\ activeRequests' =
                            StoreRequest(activeRequests, reqId, Len(heap) + 1)
                     /\ console' = Line("Request queued")
                     /\ UNCHANGED pollers
    /\ UNCHANGED <<clock, validDrivers, validLivreurs, drivers, ticks>>

\* what sendDM writes when it fails (line 116)
AfterSend(ok, con) == IF ok THEN con ELSE Line("Failed to send DM")

\* a handler's last sendDM returns and the handler with it (lines 171, 245, 274)
HandlerReturn(p, ok) ==
    /\ pollers[p].pc \in {"noDrivers", "alreadyTaken", "confirm"}
    /\ pollers' = [pollers EXCEPT ![p] = IdlePoller]
    /\ console' = AfterSend(ok, console)
    /\ UNCHANGED <<clock, validDrivers, validLivreurs, drivers, activeRequests,
                   heap, ticks, fanout>>

\* line 199: the request is due for its next offer
DispatchDue(req, now) == now - req.lastNotificationTime >= DISPATCH_INTERVAL_MS

\* line 205: the candidate may be offered the request
StillAvailable(m, did) ==
    DriversGet(m, did) # undefined /\ DriversGet(m, did).status = "AVAILABLE"

\* lines 208-211
OfferMsg(req) ==
    [req.data EXCEPT !.type = IF req.type = "DELIVERY" THEN "DELIVERY_OFFER"
                                                       ELSE "RIDE_OFFER"]

\* lines 214-216, after the offer's sendDM returned
AfterOffer(req, did, now) ==
    [req EXCEPT !.notifiedDrivers = Append(@, did),
                !.lastNotificationTime = now,
                !.nextCandidateIndex = @ + 1]

\* line 220 if it stamped the request as an offer does
SkipCandidateStamped(req) ==
    [req EXCEPT !.nextCandidateIndex = @ + 1, !.lastNotificationTime = clock]

\* line 220
SkipCandidate(req) == [req EXCEPT !.nextCandidateIndex = @ + 1]

\* processRequests from entry pos of activeRequests up to its next await or its
\* end (lines 195-231): the heap it leaves, the invocation's state and the last
\* console line
RECURSIVE RunLoop(_, _, _, _)
RunLoop(h, pos, now, con) ==
    IF pos > Len(activeRequests)
    THEN [heap |-> h, tick |-> IdleTick, console |-> con]
    ELSE
      LET ref == activeRequests[pos].ref
          req == h[ref]
      IN  IF req.status # "PENDING" THEN RunLoop(h, pos + 1, now, con)
          ELSE IF ~DispatchDue(req, now) THEN RunLoop(h, pos + 1, now, con)
          ELSE IF ~(req.nextCandidateIndex < Len(req.candidates))
               THEN RunLoop(h, pos + 1, now, con)
          ELSE
            LET candidate == req.candidates[req.nextCandidateIndex + 1]
            IN  IF StillAvailable(drivers, candidate.did)
                THEN [heap |-> h,
                      tick |-> [pc |-> "await", now |-> now, pos |-> pos,
                                ref |-> ref,
                                dm |-> DM(candidate.did, OfferMsg(req))],
                      console |-> Line("Offering request")]
                ELSE RunLoop([h EXCEPT ![ref] = SkipCandidate(req)], pos + 1, now,
                             Line("Skipping driver"))

\* the suspended invocations when invocation t is left in state tick
Suspended(tab, t, tick) ==
    LET all == [i \in 1..(IF t > Len(tab) THEN t ELSE Len(tab)) |->
                  IF i = t THEN tick ELSE tab[i]]
        Waiting(x) == x.pc = "await"
    IN  SelectSeq(all, Waiting)

\* setInterval fires processRequests (line 355): lines 193-213
TickStart(maxTicks) ==
    /\ Len(ticks) < maxTicks
    /\ LET r == RunLoop(heap, 1, clock, console)
       IN  /\ heap' = r.heap
           /\ ticks' = Suspended(ticks, Len(ticks) + 1, r.tick)
           /\ console' = r.console
    /\ UNCHANGED <<clock, validDrivers, validLivreurs, drivers, activeRequests,
                   pollers, fanout>>

\* lines 213-216 if a failed send left the request as it was
TickResumeRollsBack(t, ok) ==
    /\ LET me == ticks[t]
           h1 == IF ok
                 THEN [heap EXCEPT ![me.ref] =
                         AfterOffer(heap[me.ref], me.dm.to, me.now)]
                 ELSE heap
           r == RunLoop(h1, me.pos + 1, me.now, AfterSend(ok, console))
       IN  /\ heap' = r.heap
           /\ ticks' = Suspended(ticks, t, r.tick)
           /\ console' = r.console
    /\ UNCHANGED <<clock, validDrivers, validLivreurs, drivers, activeRequests,
                   pollers, fanout>>

\* the offer's sendDM returns (line 213): lines 214-216 and the rest of the loop
TickResume(t, ok) ==
    /\ LET me == ticks[t]
           h1 == [heap EXCEPT ![me.ref] = AfterOffer(heap[me.ref], me.dm.to, me.now)]
           r == RunLoop(h1, me.pos + 1, me.now, AfterSend(ok, console))
       IN  /\ heap' = r.heap
           /\ ticks' = Suspended(ticks, t, r.tick)
           /\ console' = r.console
    /\ UNCHANGED <<clock, validDrivers, validLivreurs, drivers, activeRequests,
                   pollers, fanout>>

\* line 265
Others(req, senderDid) ==
    LET NotMe(d) == d # senderDid IN SelectSeq(req.notifiedDrivers, NotMe)

\* lines 254-262
AssignedMsg(m, reqId, senderDid) ==
    [type |-> "ORDER_ASSIGNED", orderId |-> reqId,
     driver |-> [did |-> senderDid,
                 location |-> IF DriversGet(m, senderDid) = undefined THEN undefined
                              ELSE DriversGet(m, senderDid).location]]

\* lines 274-279
ConfirmedMsg(req, reqId) ==
    [type |-> "ORDER_CONFIRMED", orderId |-> reqId,
     customerDid |-> req.customerDid, data |-> req.data]

\* lines 238-241 if they answered the sender as lines 243-247 do
AcceptUnknownNotifies(me) ==
    [me EXCEPT !.pc = "alreadyTaken",
               !.dm = DM(me.senderDid,
                         [type |-> "ORDER_ALREADY_TAKEN", orderId |-> me.reqId])]

\* lines 238-241: nothing but the console line, the handler returns
AcceptUnknown(me) == IdlePoller

\* lines 234-262: up to the first sendDM of handleAccept
handleAccept(p, senderDid, reqId) ==
    /\ pollers[p].pc = "idle"
    /\ p = FirstIdle(pollers)
    /\ LET ref == RequestsGet(activeRequests, reqId)
           me == [IdlePoller EXCEPT !.ref = ref, !.senderDid = senderDid,
                                    !.reqId = reqId]
       IN  IF ref = 0
           THEN /\ console' = Line("accepted unknown/expired order")
                /\ pollers' = [pollers EXCEPT ![p] = AcceptUnknown(me)]
                /\ UNCHANGED <<heap, fanout>>
           ELSE IF heap[ref].status # "PENDING"
           THEN /\ console' = Line("accepted already assigned order")
                /\ pollers' = [pollers EXCEPT ![p] =
                       [me EXCEPT !.pc = "alreadyTaken",
                                  !.dm = DM(senderDid,
                                            [type |-> "ORDER_ALREADY_TAKEN",
                                             orderId |-> reqId])]]
                /\ UNCHANGED <<heap, fanout>>
           ELSE /\ heap' = [heap EXCEPT ![ref].status = "ASSIGNED"]
                /\ fanout' = [fanout EXCEPT ![ref].by = senderDid]
                /\ console' = Line("Order assigned")
                /\ pollers' = [pollers EXCEPT ![p] =
                       [me EXCEPT !.pc = "customer",
                                  !.dm = DM(heap[ref].customerDid,
                                            AssignedMsg(drivers, reqId, senderDid))]]
    /\ UNCHANGED <<clock, validDrivers, validLivreurs, drivers, activeRequests,
                   ticks>>

\* the handler goes on to its next sendDM: the next of the others (line 267) or,
\* when none is left, the confirmation (line 274)
NextSend(p, others, seen) ==
    LET me == pollers[p]
        req == heap[me.ref]
    IN  IF others # << >>
        THEN /\ pollers' = [pollers EXCEPT ![p] =
                   [me EXCEPT !.pc = "others", !.others = Tail(others),
                              !.dm = DM(Head(others),
                                        [type |-> "ORDER_TAKEN_BY_OTHER",
                                         orderId |-> me.reqId])]]
             /\ fanout' = [fanout EXCEPT ![me.ref].told = Append(@, Head(others)),
                                         ![me.ref].seen = seen]
        ELSE /\ pollers' = [pollers EXCEPT ![p] =
                   [me EXCEPT !.pc = "confirm", !.others = << >>,
                              !.dm = DM(me.senderDid, ConfirmedMsg(req, me.reqId))]]
             /\ fanout' = [fanout EXCEPT ![me.ref].seen = seen]

\* the sendDM to the customer returns (line 255): lines 265-267 or 274
AcceptNotifyOthers(p, ok) ==
    /\ pollers[p].pc = "customer"
    /\ NextSend(p, Others(heap[pollers[p].ref], pollers[p].senderDid),
                heap[pollers[p].ref].notifiedDrivers)
    /\ console' = AfterSend(ok, console)
    /\ UNCHANGED <<clock, validDrivers, validLivreurs, drivers, activeRequests,
                   heap, ticks>>

\* the sendDM to one of the others returns (line 267): the next one, or line 274
AcceptNextOther(p, ok) ==
    /\ pollers[p].pc = "others"
    /\ NextSend(p, pollers[p].others, fanout[pollers[p].ref].seen)
    /\ console' = AfterSend(ok, console)
    /\ UNCHANGED <<clock, validDrivers, validLivreurs, drivers, activeRequests,
                   heap, ticks>>

\* one step of the program: an inbound event from one of senders is handled, a
\* timer fires or a suspended coroutine goes on
Step(senders, acceptors, orders, maxRequests, maxTicks) ==
    \/ Advance
    \/ \E items \in DriverLists : RefreshDrivers(items)
    \/ \E items \in LivreurLists : RefreshLivreurs(items)
    \/ \E w \in senders \cup Customers : \E payload \in AvailabilityPayloads(w) :
          handleDriverAvailability(w, payload)
    \/ \E p \in DOMAIN pollers, c \in Customers :
          \E payload \in RequestPayloads(orders) :
             handleRequest(p, c, payload, maxRequests)
    \/ \E p \in DOMAIN pollers, w \in acceptors, o \in orders :
          handleAccept(p, w, o)
    \/ \E p \in DOMAIN pollers, ok \in BOOLEAN : AcceptNotifyOthers(p, ok)
    \/ \E p \in DOMAIN pollers, ok \in BOOLEAN : AcceptNextOther(p, ok)
    \/ \E p \in DOMAIN pollers, ok \in BOOLEAN : HandlerReturn(p, ok)
    \/ TickStart(maxTicks)
    \/ \E t \in DOMAIN ticks, ok \in BOOLEAN : TickResume(t, ok)

Next == Step(Workers, Workers, OrderIds, MaxRequests, MaxTicks)

Spec == Init /\ [][Next]_vars

NextRetransmit ==
    Step(1..RetransmitWorkers, Workers, 1..RetransmitOrders,
         RetransmitRequests, RetransmitTicks)

SpecRetransmit == Init /\ [][NextRetransmit]_vars

\* ---- what the claims speak of ----

\* the ids that have a stored request, and the object stored under an id
StoredIds == {activeRequests[i].key : i \in 1..Len(activeRequests)}
Stored(id) == heap[RequestsGet(activeRequests, id)]
StoredRefs == {activeRequests[i].ref : i \in 1..Len(activeRequests)}

\* the cursor and state of a request that a second request must leave alone
CursorState(req) ==
    <<req.status, req.candidates, req.nextCandidateIndex, req.notifiedDrivers,
      req.lastNotificationTime>>

\* the elements of a sequence, and how often one occurs in it
Range(s) == {s[i] : i \in 1..Len(s)}
Occurrences(s, x) == Cardinality({i \in 1..Len(s) : s[i] = x})

\* the step stores a new request object under id (line 176)
Queues(id) == Len(heap') = Len(heap) + 1 /\ heap'[Len(heap')].id = id

\* C1: a request that carries the id of a stored request leaves the stored
\* request's status, candidates, cursor, notified workers and last offer time
\* as they were (it is rejected as a duplicate)
C1_DuplicateLeavesStored ==
    [][\A id \in StoredIds :
          Queues(id) =>
             CursorState(heap'[RequestsGet(activeRequests', id)])
               = CursorState(Stored(id))]_vars

\* C2: for every request id at most one accept ever assigns the request (every
\* later accept finds it ASSIGNED and is answered ORDER_ALREADY_TAKEN)
C2_OneAssignmentPerId ==
    \A id \in OrderIds \cup (1..RetransmitOrders) :
       Cardinality({r \in 1..Len(heap) :
                      heap[r].id = id /\ heap[r].status = "ASSIGNED"}) <= 1

\* C3: once the request stored under an id is ASSIGNED, the request stored
\* under that id is ASSIGNED in every later state
C3_AssignedIsTerminal ==
    [][\A id \in StoredIds :
          Stored(id).status = "ASSIGNED" =>
             heap'[RequestsGet(activeRequests', id)].status = "ASSIGNED"]_vars

\* the workers an offer for request object r was sent to: the notified ones and
\* those whose offer is in flight
Offered(r) ==
    Range(heap[r].notifiedDrivers)
      \cup {ticks[t].dm.to : t \in {u \in 1..Len(ticks) : ticks[u].ref = r}}

\* the accept handler has sent all its ORDER_TAKEN_BY_OTHER for object r
FanOutDone(r) ==
    /\ heap[r].status = "ASSIGNED"
    /\ \A p \in DOMAIN pollers :
          pollers[p].ref = r => pollers[p].pc \notin {"customer", "others"}

\* C4: when a request is ASSIGNED, every worker that was sent an offer for it,
\* other than the accepting worker, is sent ORDER_TAKEN_BY_OTHER
C4_EveryOfferedWorkerIsTold ==
    \A r \in 1..Len(heap) :
       FanOutDone(r) =>
          \A w \in Offered(r) \ {fanout[r].by} : w \in Range(fanout[r].told)

\* C5: an accept of a PENDING request sends ORDER_ASSIGNED to the requester
\* with the accepting worker's id and registry location, exactly one
\* ORDER_TAKEN_BY_OTHER to each notified worker other than the accepting one
\* and to nobody else, and ORDER_CONFIRMED to the accepting worker with the
\* requester id and the payload
C5_AcceptFanOut ==
    \A p \in DOMAIN pollers :
       LET me == pollers[p]
           req == heap[me.ref]
       IN  /\ me.pc = "customer" =>
                /\ me.dm.to = req.customerDid
                /\ me.dm.msg.type = "ORDER_ASSIGNED"
                /\ me.dm.msg.driver.did = me.senderDid
                /\ DriversGet(drivers, me.senderDid) # undefined =>
                     me.dm.msg.driver.location
                       = DriversGet(drivers, me.senderDid).location
           /\ me.pc = "confirm" =>
                /\ me.dm = DM(me.senderDid,
                              [type |-> "ORDER_CONFIRMED", orderId |-> req.id,
                               customerDid |-> req.customerDid, data |-> req.data])
                /\ \A w \in Workers :
                      Occurrences(fanout[me.ref].told, w)
                        = IF w # me.senderDid /\ w \in Range(fanout[me.ref].seen)
                          THEN 1 ELSE 0

UnknownLine == Line("accepted unknown/expired order")

\* the step handles an accept for an id that has no stored request (line 239)
HandlesUnknownAccept == console' = UnknownLine /\ console # UnknownLine

\* C6 as the spec has it: an accept for an id that is not stored sends an
\* "unknown/expired order" notification to the accepting worker
C6_UnknownAcceptNotifies ==
    [][HandlesUnknownAccept =>
          \E p \in DOMAIN pollers :
             pollers'[p].pc # "idle" /\ pollers'[p].dm.to = pollers'[p].senderDid]_vars

\* C6 as amended: an accept for an id that is not stored sends no notification
\* (it writes a console line) and changes no request and no registry record
C6_UnknownAcceptChangesNothing ==
    [][HandlesUnknownAccept =>
          UNCHANGED <<heap, activeRequests, drivers, validDrivers, validLivreurs,
                      pollers, ticks, fanout, clock>>]_vars

\* an unknown accept was handled while a request is stored and a worker known
C6_Witness ==
    console = UnknownLine /\ Len(heap) > 0 /\ Len(drivers) > 0

\* the payload names an origin
HasOrigin(payload) ==
    payload.pickup # undefined \/ payload.deliveryLocation # undefined

\* a worker of the payload's class is AVAILABLE with a location
MatchingAvailable(payload) ==
    \E i \in 1..Len(drivers) :
       /\ drivers[i].type = ReqType(payload)
       /\ drivers[i].status = "AVAILABLE"
       /\ drivers[i].location # undefined

\* the request object was stored and never touched since
Fresh(req) ==
    /\ req.status = "PENDING" /\ req.nextCandidateIndex = 0
    /\ req.notifiedDrivers = << >> /\ req.lastNotificationTime = 0

\* C7: a request with origin coordinates, whatever their values, that finds an
\* AVAILABLE located worker of its class is stored PENDING with cursor 0, no
\* notified worker and last offer time 0; a tick at now >= the offer interval
\* then offers it to the nearest candidate
C7_RequestWithOriginIsOffered ==
    /\ \A payload \in RequestPayloads(OrderIds) :
          (HasOrigin(payload) /\ MatchingAvailable(payload)) =>
             /\ ~MissingLocation(payload)
             /\ Len(RequestCandidates(drivers, payload)) > 0
             /\ Fresh(NewRequest(MaxWorkers + 1, payload,
                                 RequestCandidates(drivers, payload), clock))
    /\ \A pos \in 1..Len(activeRequests) :
          LET ref == activeRequests[pos].ref
              req == heap[ref]
              r == RunLoop(heap, pos, clock, console)
          IN  (Fresh(req) /\ clock >= DISPATCH_INTERVAL_MS
               /\ StillAvailable(drivers, req.candidates[1].did)) =>
                 /\ r.tick.pc = "await" /\ r.tick.ref = ref
                 /\ r.tick.dm.to = req.candidates[1].did
                 /\ AfterOffer(req, r.tick.dm.to, clock).nextCandidateIndex = 1
                 /\ AfterOffer(req, r.tick.dm.to, clock).notifiedDrivers
                      = <<req.candidates[1].did>>

Distance(a, b) == IF a < b THEN b - a ELSE a - b

\* C8: a tick leaves a PENDING request alone that is not due (now less than an
\* offer interval after its last offer) and sends no offer for it; any two
\* offers for one request are stamped at least an offer interval apart
C8_OffersAnIntervalApart ==
    /\ \A pos \in 1..Len(activeRequests) :
          LET ref == activeRequests[pos].ref
              req == heap[ref]
              r == RunLoop(heap, pos, clock, console)
          IN  (req.status = "PENDING" /\ clock - req.lastNotificationTime
                                           < DISPATCH_INTERVAL_MS) =>
                 /\ r.heap[ref] = req
                 /\ r.tick.ref # ref
    /\ \A t \in 1..Len(ticks) :
          /\ \A u \in 1..Len(ticks) :
                (t # u /\ ticks[t].ref = ticks[u].ref) =>
                   Distance(ticks[t].now, ticks[u].now) >= DISPATCH_INTERVAL_MS
          /\ heap[ticks[t].ref].notifiedDrivers # << >> =>
                Distance(ticks[t].now, heap[ticks[t].ref].lastNotificationTime)
                  >= DISPATCH_INTERVAL_MS

\* the candidate at the cursor of a request object is not to be offered
StaleCandidate(req) ==
    /\ req.status = "PENDING"
    /\ DispatchDue(req, clock)
    /\ req.nextCandidateIndex < Len(req.candidates)
    /\ ~StillAvailable(drivers, req.candidates[req.nextCandidateIndex + 1].did)

\* C9: a tick that comes to a candidate that is not AVAILABLE moves the cursor
\* on by one, sends no offer for the request and leaves its last offer time,
\* notified workers and status as they are, so that the request is due again
\* at the next tick; no step of a tick moves a cursor by more than one
C9_SkipAdvancesCursorOnly ==
    [][/\ \A pos \in 1..Len(activeRequests) :
             LET ref == activeRequests[pos].ref
                 req == heap[ref]
                 r == RunLoop(heap, pos, clock, console)
             IN  StaleCandidate(req) =>
                    /\ r.heap[ref] =
                         [req EXCEPT !.nextCandidateIndex = req.nextCandidateIndex + 1]
                    /\ r.tick.ref # ref
                    /\ DispatchDue(r.heap[ref], clock)
       /\ \A ref \in 1..Len(heap) :
             /\ heap'[ref].nextCandidateIndex <= heap[ref].nextCandidateIndex + 1
             /\ (/\ heap'[ref].nextCandidateIndex = heap[ref].nextCandidateIndex + 1
                 /\ heap'[ref].notifiedDrivers = heap[ref].notifiedDrivers) =>
                   /\ heap'[ref] = [heap[ref] EXCEPT !.nextCandidateIndex = @ + 1]
                   /\ StaleCandidate(heap[ref])
                   /\ \A t \in 1..Len(ticks') :
                         ticks'[t].ref = ref => t <= Len(ticks) /\ ticks'[t] = ticks[t]
      ]_vars

\* two stale candidates in a row were passed, no offer was stamped
C9_Witness ==
    \E ref \in StoredRefs :
       /\ heap[ref].status = "PENDING"
       /\ heap[ref].nextCandidateIndex = 2
       /\ heap[ref].notifiedDrivers = << >>
       /\ heap[ref].lastNotificationTime = 0
       /\ console = Line("Skipping driver")

\* the workers of the candidates below the cursor
Passed(req) ==
    {req.candidates[i].did :
        i \in 1..(IF req.nextCandidateIndex < Len(req.candidates)
                  THEN req.nextCandidateIndex ELSE Len(req.candidates))}

CursorInvariant(req) ==
    /\ 0 <= req.nextCandidateIndex
    /\ req.nextCandidateIndex <= Len(req.candidates)
    /\ Range(req.notifiedDrivers) \subseteq Passed(req)

\* C10: the cursor of every stored request is between 0 and the number of its
\* candidates and never decreases, and every notified worker is the worker of
\* a candidate below the cursor
C10_CursorInvariants ==
    [][/\ \A ref \in StoredRefs : CursorInvariant(heap[ref])
       /\ \A id \in StoredIds :
             heap'[RequestsGet(activeRequests', id)].nextCandidateIndex
               >= Stored(id).nextCandidateIndex]_vars

\* the units of work that have started and not finished: the suspended ticks
\* and the handlers suspended in a sendDM
InProgress ==
    Len(ticks) + Cardinality({p \in DOMAIN pollers : pollers[p].pc # "idle"})

\* C11: while a unit of work (a tick, the handling of an inbound event, a
\* membership refresh) has started and not finished, no other unit starts: at
\* most one unit is in progress, and no step of another unit writes the worker
\* registry, the authorized sets or the request store meanwhile
C11_RunToCompletion ==
    [][InProgress >= 1 =>
          /\ InProgress' <= 1
          /\ UNCHANGED <<drivers, validDrivers, validLivreurs, activeRequests>>
          /\ Len(heap') = Len(heap)]_vars

\* C12: the last offer time of the request stored under an id never takes a
\* value smaller than one it held before
C12_LastOfferAtMonotone ==
    [][\A id \in StoredIds :
          heap'[RequestsGet(activeRequests', id)].lastNotificationTime
            >= Stored(id).lastNotificationTime]_vars

\* the sender is in one of the authorized sets
Authorized(w) == w \in validDrivers \cup validLivreurs

\* the step writes the registry record of w
Upserts(w) == DriversGet(drivers', w) # DriversGet(drivers, w)

\* C13: a step never changes the registry record of a sender that is in
\* neither authorized set; a step that changes the registry writes the record
\* of one authorized sender, with an availability status, lastSeen = now and
\* the class of a set the sender is in, keeps every other record and its
\* position, and changes no request
C13_RegistryGate ==
    [][/\ \A w \in Workers \cup Customers : ~Authorized(w) => ~Upserts(w)
       /\ drivers' # drivers =>
             \E w \in Workers \cup Customers :
                /\ Authorized(w)
                /\ \A v \in (Workers \cup Customers) \ {w} : ~Upserts(v)
                /\ \A i \in 1..Len(drivers) : drivers'[i].did = drivers[i].did
                /\ Len(drivers') = Len(drivers)
                                  + (IF DriversGet(drivers, w) = undefined
                                     THEN 1 ELSE 0)
                /\ DriversGet(drivers', w).did = w
                /\ DriversGet(drivers', w).status \in Statuses
                /\ DriversGet(drivers', w).lastSeen = clock
                /\ DriversGet(drivers', w).type
                      = (IF w \in validDrivers THEN "DRIVERS" ELSE "LIVREURS")
                /\ UNCHANGED <<heap, activeRequests, validDrivers, validLivreurs>>]_vars

\* an update from a sender in neither set was dropped while the registry holds
\* the records of two authorized senders, one of each class
C13_Witness ==
    /\ console = Line("Ignored availability from non-driver")
    /\ Len(drivers) = 2
    /\ drivers[1].type # drivers[2].type

\* the origin a request names and the class of worker its kind asks for
Origin(req) ==
    IF req.data.pickup # undefined THEN req.data.pickup
    ELSE req.data.deliveryLocation

WantedClass(req) == IF req.type = "RIDE" THEN "DRIVERS" ELSE "LIVREURS"

\* the registry workers a request may be offered to
Eligible(req) ==
    {drivers[i].did : i \in {j \in 1..Len(drivers) :
                               /\ drivers[j].type = WantedClass(req)
                               /\ drivers[j].status = "AVAILABLE"
                               /\ drivers[j].location # undefined}}

\* C14: the candidates stored with a new request are the registry workers of
\* the class of its kind that are AVAILABLE and located at that time, each
\* once and no other worker, each with its distance from the request origin,
\* in non-decreasing distance; no step changes the candidates of a request
C14_CandidateComputation ==
    [][/\ Len(heap') = Len(heap) + 1 =>
             LET req == heap'[Len(heap')]
                 cs == req.candidates
             IN  /\ {cs[i].did : i \in 1..Len(cs)} = Eligible(req)
                 /\ Len(cs) = Cardinality(Eligible(req))
                 /\ \A i \in 1..Len(cs) :
                       cs[i].distance =
                         getDistance(Origin(req)[1], Origin(req)[2],
                                     DriversGet(drivers, cs[i].did).location[1],
                                     DriversGet(drivers, cs[i].did).location[2])
                 /\ \A i \in 1..(Len(cs) - 1) :
                       cs[i].distance <= cs[i + 1].distance
       /\ \A r \in 1..Len(heap) : heap'[r].candidates = heap[r].candidates]_vars

\* a request was stored with two candidates, the nearer one being the later
\* entry of the registry
C14_Witness ==
    \E r \in 1..Len(heap) :
       /\ Len(heap[r].candidates) = 2
       /\ heap[r].candidates[1].distance < heap[r].candidates[2].distance
       /\ heap[r].candidates[1].did = drivers[2].did

\* C15: an inbound request that names an origin and finds no AVAILABLE located
\* worker of its class is answered: the handler reaches its empty-match branch
\* (line 169), where it sends the requester NO_DRIVERS_AVAILABLE for the order
\* id, once, and stores no request and changes no stored request
C15_EmptyMatchAnswered ==
    [][/\ \A payload \in RequestPayloads(OrderIds) :
             (HasOrigin(payload) /\ ~MatchingAvailable(payload)) =>
                /\ ~MissingLocation(payload)
                /\ Len(RequestCandidates(drivers, payload)) = 0
       /\ \A p \in DOMAIN pollers :
             (pollers[p].pc = "idle" /\ pollers'[p].pc = "noDrivers") =>
                /\ pollers'[p].dm.to = pollers'[p].senderDid
                /\ pollers'[p].dm.msg = [type |-> "NO_DRIVERS_AVAILABLE",
                                         orderId |-> pollers'[p].reqId]
                /\ UNCHANGED <<heap, activeRequests>>]_vars

\* the step is the return of the sendDM that suspended invocation t awaits:
\* the invocation leaves ticks or stays in it further down its loop
ResumesTick(t) ==
    /\ \A u \in 1..(t - 1) : ticks'[u] = ticks[u]
    /\ \/ /\ Len(ticks') = Len(ticks) - 1
          /\ \A u \in t..Len(ticks') : ticks'[u] = ticks[u + 1]
       \/ /\ Len(ticks') = Len(ticks)
          /\ ticks'[t].now = ticks[t].now /\ ticks'[t].pos > ticks[t].pos
          /\ \A u \in (t + 1)..Len(ticks) : ticks'[u] = ticks[u]

FailedLine == Line("Failed to send DM")

\* C16: when the send of an offer returns, failed or not, the worker is added
\* to the notified workers, the last offer time is the now of the offering
\* tick and the cursor is one further; nothing is sent again for a failed send
C16_OfferSlotConsumed ==
    [][\A t \in 1..Len(ticks) :
          ResumesTick(t) =>
             LET ref == ticks[t].ref
             IN  /\ heap'[ref].notifiedDrivers
                      = Append(heap[ref].notifiedDrivers, ticks[t].dm.to)
                 /\ heap'[ref].lastNotificationTime = ticks[t].now
                 /\ heap'[ref].nextCandidateIndex
                      = heap[ref].nextCandidateIndex + 1
                 /\ \A u \in 1..Len(ticks') :
                       ticks'[u].ref = ref =>
                          \E v \in 1..Len(ticks) :
                             v # t /\ ticks[v] = ticks'[u]]_vars

\* the send of an offer failed: no unit is in progress, the request is
\* PENDING, the worker is notified and the cursor has moved
C16_Witness ==
    /\ console = FailedLine
    /\ InProgress = 0
    /\ \E r \in 1..Len(heap) :
          /\ heap[r].status = "PENDING"
          /\ heap[r].nextCandidateIndex = 1
          /\ heap[r].notifiedDrivers = <<heap[r].candidates[1].did>>
          /\ heap[r].lastNotificationTime = clock

\* a PENDING request that has no candidate left
Exhausted(req) ==
    req.status = "PENDING" /\ req.nextCandidateIndex >= Len(req.candidates)

\* C17: while the request stored under an id is PENDING with no candidate
\* left, a tick that starts leaves it unchanged and sends no offer for it, no
\* step sends an offer for the id, and after every step the request stored
\* under the id still is PENDING with no candidate left, or ASSIGNED by an
\* accept
C17_ExhaustedStalls ==
    [][\A pos \in 1..Len(activeRequests) :
          LET id == activeRequests[pos].key
              ref == activeRequests[pos].ref
              r == RunLoop(heap, pos, clock, console)
              after == heap'[RequestsGet(activeRequests', id)]
          IN  Exhausted(heap[ref]) =>
                 /\ r.heap[ref] = heap[ref]
                 /\ r.tick.ref # ref
                 /\ \A u \in 1..Len(ticks') :
                       heap'[ticks'[u].ref].id = id =>
                          \E v \in 1..Len(ticks) : ticks[v] = ticks'[u]
                 /\ \/ Exhausted(after)
                    \/ after.status = "ASSIGNED" /\ fanout' # fanout]_vars

\* the offers for request object r that are in flight to worker w
InFlight(r, w) ==
    Cardinality({t \in 1..Len(ticks) : ticks[t].ref = r /\ ticks[t].dm.to = w})

\* C18: no worker is sent more than one offer for a request and no worker is
\* twice among its notified workers, whatever ticks overlap: for every worker,
\* the offers in flight to it and its entries among the notified workers are
\* at most one together
C18_NoDuplicateOffers ==
    \A r \in 1..Len(heap) :
       \A w \in Workers :
          InFlight(r, w) + Occurrences(heap[r].notifiedDrivers, w) <= 1

\* the cursor state of a request that dispatch works on
OfferState(req) ==
    <<req.nextCandidateIndex, req.notifiedDrivers, req.lastNotificationTime>>

\* C19: once a request is ASSIGNED its cursor, notified workers and last offer
\* time never change and no offer for it is sent, also when the accept came
\* while a tick was awaiting the send of an offer for it
C19_NoOfferAfterAssignment ==
    [][\A r \in 1..Len(heap) :
          heap[r].status = "ASSIGNED" =>
             /\ OfferState(heap'[r]) = OfferState(heap[r])
             /\ \A u \in 1..Len(ticks') :
                   ticks'[u].ref = r => \E v \in 1..Len(ticks) : ticks[v] = ticks'[u]]_vars

\* C20 (what it says of each step of the cursor; that the cursor of a request
\* that stays PENDING reaches the end follows from it when ticks keep
\* starting, sends return and time advances): the cursor of a request moves
\* only from a position that has a candidate, by one, and either with an offer
\* to the candidate at that position or without an offer when that candidate
\* is not AVAILABLE
C20_EveryPositionHandledOnce ==
    [][\A r \in 1..Len(heap) :
          LET req == heap[r]
              i == req.nextCandidateIndex
          IN  heap'[r].nextCandidateIndex # i =>
                 /\ i < Len(req.candidates)
                 /\ heap'[r].nextCandidateIndex = i + 1
                 /\ \/ heap'[r].notifiedDrivers
                         = Append(req.notifiedDrivers, req.candidates[i + 1].did)
                    \/ /\ heap'[r].notifiedDrivers = req.notifiedDrivers
                       /\ ~StillAvailable(drivers, req.candidates[i + 1].did)]_vars

====
